---- MODULE Spec2Model ----
(***************************************************************************)
(* Model of src/app.py: the two HTTP handlers that talk to the Node.js     *)
(* configuration service (get_node_config, combined_process), the generic  *)
(* exception handler, the MKTResponse envelope and get_sheet_data.         *)
(*                                                                         *)
(* JSON / Python values are tagged records so that values of different     *)
(* Python types can be compared.  Floats are not modelled: numbers are     *)
(* integers.  Text built with f-strings or str(e) is a sequence of string  *)
(* pieces; accented letters of the source literals are written unaccented. *)
(***************************************************************************)
EXTENDS Integers, Sequences, FiniteSets, TLC

(* ------------------------------ bounds --------------------------------- *)
\* longest short "items" list a caller submits (besides the two lists around the default limit)
MaxLen == 2
\* largest max_connections value the upstream declares
MaxLimit == 2
\* rows of a sheet, header row included
MaxRows == 3
\* cells per row
MaxCols == 2

(* --------------------------- program constants ------------------------- *)
\* node_config.get('max_connections', 100)
DefaultMaxItems == 100

Requests == {"r1", "r2"}
NodeUrls == {"http://node-a:3000", "http://node-b:3000"}
NonOkStatuses == {201, 404, 500}
Cells == {"a", "b"}
Titles == {"Hoja1"}

(* ----------------------------- JSON values ----------------------------- *)
JNull == [t |-> "null"]
JBool(b) == [t |-> "bool", b |-> b]
JNum(n) == [t |-> "num", n |-> n]
JStr(s) == [t |-> "str", s |-> s]
JList(l) == [t |-> "list", l |-> l]
JObj(o) == [t |-> "obj", o |-> o]
EmptyDict == [k \in {} |-> JNull]

\* type(x).__name__ as it appears in Python's exception texts
PyTypeName(v) ==
  CASE v.t = "null" -> "NoneType"
    [] v.t = "bool" -> "bool"
    [] v.t = "num" -> "int"
    [] v.t = "str" -> "str"
    [] v.t = "list" -> "list"
    [] v.t = "obj" -> "dict"

\* outcome of an expression that may raise: [ok |-> value] or [raises |-> text]
Ok(v) == [ok |-> v]
Raises(text) == [raises |-> text]
IsRaise(o) == "raises" \in DOMAIN o

\* x.get(key, default): only dicts have .get
DictGet(v, key, default) ==
  IF v.t = "obj"
    THEN Ok(IF key \in DOMAIN v.o THEN v.o[key] ELSE default)
    ELSE Raises(<<"'", PyTypeName(v), "' object has no attribute 'get'">>)

\* len(x)
PyLen(v) ==
  CASE v.t = "list" -> Ok(Len(v.l))
    [] v.t = "obj" -> Ok(Cardinality(DOMAIN v.o))
    [] OTHER -> Raises(<<"object of type '", PyTypeName(v), "' has no len()">>)

\* variant: strict comparison
PyLessEq_strict(n, v) ==
  CASE v.t = "num" -> Ok(n < v.n)
    [] v.t = "bool" -> Ok(n < (IF v.b THEN 1 ELSE 0))
    [] OTHER -> Raises(<<"'<' not supported between instances of 'int' and '", PyTypeName(v), "'">>)

\* n <= x for an int n: bool is a subclass of int in Python (True == 1)
PyLessEq(n, v) ==
  CASE v.t = "num" -> Ok(n <= v.n)
    [] v.t = "bool" -> Ok(n <= (IF v.b THEN 1 ELSE 0))
    [] OTHER -> Raises(<<"'<=' not supported between instances of 'int' and '", PyTypeName(v), "'">>)

\* str(n) for the status codes that occur
StatusText(code) ==
  CASE code = 200 -> "200"
    [] code = 201 -> "201"
    [] code = 404 -> "404"
    [] code = 500 -> "500"
    [] code = 503 -> "503"

(* -------------------------- inputs of the handlers --------------------- *)
Item == JNum(0)
ItemsOfLen(n) == JList([i \in 1..n |-> Item])
ItemLens == (0..MaxLen) \cup {DefaultMaxItems, DefaultMaxItems + 1}

\* what request.get_json() gives the handler
GetJsonOutcomes ==
  {Raises(<<"400 Bad Request: Failed to decode JSON object">>),
   Raises(<<"415 Unsupported Media Type">>),
   Ok(JNull),
   Ok(JList(<<Item>>)),
   Ok(JObj(EmptyDict)),
   Ok(JObj([items |-> JNull])),
   Ok(JObj([items |-> JObj([a |-> Item])]))}
  \cup {Ok(JObj([items |-> ItemsOfLen(n)])) : n \in ItemLens}
  \cup {Ok(JObj([items |-> ItemsOfLen(1), user |-> JStr("u")]))}

\* JSON documents the upstream serves on /api/config
ConfigDocs ==
  {JList(<<>>),
   JObj(EmptyDict),
   JObj([name |-> JStr("node")]),
   JObj([max_connections |-> JStr("abc")]),
   JObj([max_connections |-> JNull]),
   JObj([max_connections |-> JList(<<>>)]),
   JObj([max_connections |-> JBool(FALSE)]),
   JObj([max_connections |-> JBool(TRUE)])}
  \cup {JObj([max_connections |-> JNum(m)]) : m \in (-1)..MaxLimit}
  \cup {JObj([max_connections |-> JNum(1), name |-> JStr("node")])}

\* what requests.get(...) gives the handler: an exception or a response whose
\* .json() gives a document or raises (a RequestException since requests 2.27,
\* a plain ValueError before)
UpstreamAnswers ==
  {[kind |-> "error", isRequestException |-> TRUE, text |-> <<"ConnectionError: connection refused">>],
   [kind |-> "error", isRequestException |-> TRUE, text |-> <<"ReadTimeout: read timed out. (read timeout=5)">>]}
  \cup {[kind |-> "response", status_code |-> s, json |-> Ok(JNull)] : s \in NonOkStatuses}
  \cup {[kind |-> "response", status_code |-> 200, json |-> Ok(d)] : d \in ConfigDocs}
  \cup {[kind |-> "response", status_code |-> 200,
         json |-> [raises |-> <<"Expecting value: line 1 column 1 (char 0)">>, isRequestException |-> b]] : b \in BOOLEAN}

NoValue == [none |-> TRUE]

(* ------------------------------ the envelope --------------------------- *)
\* MKTResponse(...).to_dict()
MKTResponse(es_error, error_code, message, result) ==
  [EsError |-> es_error, ErrorCode |-> error_code, Message |-> message, Result |-> result]

\* MKTResponse.success(result): message defaults to "Operacion exitosa"
MKTResponse_success(result) ==
  MKTResponse(FALSE, JStr("0"), JStr("Operacion exitosa"), result)

\* MKTResponse.error(error_code, message): result defaults to None
MKTResponse_error(error_code, message) ==
  MKTResponse(TRUE, error_code, message, JNull)

(* ------------------------------ responses ------------------------------ *)
\* jsonify({...}), status
Response(status, body) == [status |-> status, body |-> body]

\* the fixed message of handle_exception
GenericMessage == <<"Error inesperado en el servidor">>

\* @app.errorhandler(Exception): whatever escapes a view function
handle_exception(text) ==
  Response(500, [success |-> FALSE, error |-> GenericMessage])

\* a document with the default limit written into it (dict.setdefault)
WithDefaultLimit(doc) ==
  IF doc.t = "obj" /\ "max_connections" \notin DOMAIN doc.o
    THEN JObj([k \in DOMAIN doc.o \cup {"max_connections"} |->
                 IF k = "max_connections" THEN JNum(DefaultMaxItems) ELSE doc.o[k]])
    ELSE doc

\* the branch of get_node_config for an upstream answer of status 200
\* variant: the default limit is written into the document passed on
node_config_ok_filled(up) ==
  IF IsRaise(up.json)
    THEN IF up.json.isRequestException
           THEN Response(503, [success |-> FALSE,
                               error |-> <<"Error al conectar con Node.js: ">> \o up.json.raises])
           ELSE handle_exception(up.json.raises)
    ELSE Response(200, [success |-> TRUE, node_config |-> WithDefaultLimit(up.json.ok)])

node_config_ok(up) ==
  IF IsRaise(up.json)
    THEN IF up.json.isRequestException
           THEN Response(503, [success |-> FALSE,
                               error |-> <<"Error al conectar con Node.js: ">> \o up.json.raises])
           ELSE handle_exception(up.json.raises)
    ELSE Response(200, [success |-> TRUE, node_config |-> up.json.ok])

\* the branch of get_node_config for an upstream answer of another status
\* variant: the failure goes out with status 200
node_config_not_ok_as200(up) ==
  Response(200, [success |-> FALSE,
                 error |-> <<"Node.js respondio con status ", StatusText(up.status_code)>>])

node_config_not_ok(up) ==
  Response(up.status_code,
           [success |-> FALSE,
            error |-> <<"Node.js respondio con status ", StatusText(up.status_code)>>])

\* the view function behind GET /api/axs/belfort/get-node-config, given what
\* requests.get(...) produced
get_node_config(up) ==
  IF up.kind = "error"
    THEN IF up.isRequestException
           THEN Response(503, [success |-> FALSE,
                               error |-> <<"Error al conectar con Node.js: ">> \o up.text])
           ELSE handle_exception(up.text)
  ELSE IF up.status_code = 200
    THEN node_config_ok(up)
    ELSE node_config_not_ok(up)

\* variant: the caught exception goes out as an MKTResponse envelope
Caught_envelope(text) ==
  Response(500, MKTResponse_error(JStr("500"), text))

\* except Exception as e: ... 'error': str(e) ... 500
Caught(text) == Response(500, [success |-> FALSE, error |-> text])

\* variant: node_config.setdefault('max_connections', 100)
process_with_config_setdefault(data, up) ==
  IF IsRaise(up.json) THEN Caught(up.json.raises)
  ELSE
    LET got == DictGet(up.json.ok, "max_connections", JNum(DefaultMaxItems))
        node_config == WithDefaultLimit(up.json.ok)
    IN  IF IsRaise(got) THEN Caught(got.raises)
        ELSE
          LET max_items == got.ok
              items == DictGet(data, "items", JList(<<>>))
          IN  IF IsRaise(items) THEN Caught(items.raises)
              ELSE
                LET n == PyLen(items.ok)
                IN  IF IsRaise(n) THEN Caught(n.raises)
                    ELSE
                      LET within == PyLessEq(n.ok, max_items)
                      IN  IF IsRaise(within) THEN Caught(within.raises)
                          ELSE Response(200,
                                 [success |-> TRUE,
                                  result |-> [data |-> data,
                                              max_items_allowed |-> max_items,
                                              items_processed |-> n.ok,
                                              within_limits |-> within.ok],
                                  node_config_used |-> node_config])

\* lines 243-259: the upstream answered 200 and data is what get_json() gave
process_with_config(data, up) ==
  IF IsRaise(up.json) THEN Caught(up.json.raises)
  ELSE
    LET node_config == up.json.ok
        got == DictGet(node_config, "max_connections", JNum(DefaultMaxItems))
    IN  IF IsRaise(got) THEN Caught(got.raises)
        ELSE
          LET max_items == got.ok
              items == DictGet(data, "items", JList(<<>>))
          IN  IF IsRaise(items) THEN Caught(items.raises)
              ELSE
                LET n == PyLen(items.ok)
                IN  IF IsRaise(n) THEN Caught(n.raises)
                    ELSE
                      LET within == PyLessEq(n.ok, max_items)
                      IN  IF IsRaise(within) THEN Caught(within.raises)
                          ELSE Response(200,
                                 [success |-> TRUE,
                                  result |-> [data |-> data,
                                              max_items_allowed |-> max_items,
                                              items_processed |-> n.ok,
                                              within_limits |-> within.ok],
                                  node_config_used |-> node_config])

\* variant: an unreachable upstream handled as in get_node_config
combined_process_unreachable503(gj, up) ==
  IF IsRaise(gj) THEN Caught(gj.raises)
  ELSE IF up.kind = "error"
    THEN Response(503, [success |-> FALSE,
                        error |-> <<"Error al conectar con Node.js: ">> \o up.text])
  ELSE IF up.status_code # 200
    THEN Response(503, [success |-> FALSE,
                        error |-> <<"No se pudo obtener configuracion de Node.js">>])
    ELSE process_with_config(gj.ok, up)

\* the view function behind POST /api/axs/belfort/combined-process, given what
\* request.get_json() and requests.get(...) produced (up is not looked at
\* when get_json() raised: no call is made)
combined_process(gj, up) ==
  IF IsRaise(gj) THEN Caught(gj.raises)
  ELSE IF up.kind = "error" THEN Caught(up.text)
  ELSE IF up.status_code # 200
    THEN Response(503, [success |-> FALSE,
                        error |-> <<"No se pudo obtener configuracion de Node.js">>])
    ELSE process_with_config(gj.ok, up)

(* ------------------------------ get_sheet_data ------------------------- *)
RECURSIVE SeqsUpTo(_, _)
\* the sequences over S of length at most n
SeqsUpTo(S, n) ==
  IF n = 0 THEN {<<>>}
  ELSE LET shorter == SeqsUpTo(S, n - 1)
       IN  shorter \cup {Append(q, x) : q \in {p \in shorter : Len(p) = n - 1}, x \in S}

Rows == SeqsUpTo(Cells, MaxCols)

\* what worksheet.get_all_values() can give, and a failure while opening or reading
Worksheets ==
  {[title |-> t, values |-> Ok(v)] : t \in Titles, v \in SeqsUpTo(Rows, MaxRows)}
  \cup {[title |-> t, values |-> Raises(<<"APIError: quota exceeded">>)] : t \in Titles}

RECURSIVE row_dict_upto(_, _, _)
\* variant: a repeated header keeps its first cell
row_dict_upto_first_wins(headers, row, i) ==
  IF i = 0 THEN [h \in {} |-> ""]
  ELSE LET before == row_dict_upto(headers, row, i - 1)
           cell == IF i <= Len(row) THEN row[i] ELSE ""
       IN  [h \in DOMAIN before \cup {headers[i]} |->
              IF h \in DOMAIN before THEN before[h] ELSE cell]

\* row_dict after the first i iterations of "for i, header in enumerate(headers)"
row_dict_upto(headers, row, i) ==
  IF i = 0 THEN [h \in {} |-> ""]
  ELSE LET before == row_dict_upto(headers, row, i - 1)
           cell == IF i <= Len(row) THEN row[i] ELSE ""
       IN  [h \in DOMAIN before \cup {headers[i]} |->
              IF h = headers[i] THEN cell ELSE before[h]]

row_dict(headers, row) == row_dict_upto(headers, row, Len(headers))

\* variant: total counts the header row too
get_sheet_data_total_all(connected, ws) ==
  IF ~connected
    THEN [error |-> <<"'NoneType' object has no attribute 'open_by_key'">>]
  ELSE IF IsRaise(ws.values)
    THEN [error |-> ws.values.raises]
  ELSE
    LET all_values == ws.values.ok
    IN  IF all_values = <<>>
          THEN [headers |-> <<>>, total |-> 0,
                errorResponse |-> MKTResponse_error(JNum(-1), JStr("sin datos"))]
          ELSE
            LET headers == Head(all_values)
                rows == Tail(all_values)
                data_dicts == [k \in 1..Len(rows) |-> row_dict(headers, rows[k])]
            IN  [sheet_name |-> ws.title,
                 headers |-> headers,
                 inventoryList |-> data_dicts,
                 errorResponse |-> MKTResponse_success(JStr("OK")),
                 total |-> Len(all_values)]

\* get_sheet_data(self, sheet_url, worksheet_name): connected says whether
\* self.client was set by connect(), ws is the worksheet that gets opened
get_sheet_data(connected, ws) ==
  IF ~connected
    THEN [error |-> <<"'NoneType' object has no attribute 'open_by_key'">>]
  ELSE IF IsRaise(ws.values)
    THEN [error |-> ws.values.raises]
  ELSE
    LET all_values == ws.values.ok
    IN  IF all_values = <<>>
          THEN [headers |-> <<>>, total |-> 0,
                errorResponse |-> MKTResponse_error(JNum(-1), JStr("sin datos"))]
          ELSE
            LET headers == Head(all_values)
                rows == Tail(all_values)
                data_dicts == [k \in 1..Len(rows) |-> row_dict(headers, rows[k])]
            IN  [sheet_name |-> ws.title,
                 headers |-> headers,
                 inventoryList |-> data_dicts,
                 errorResponse |-> MKTResponse_success(JStr("OK")),
                 total |-> Len(rows)]

(* -------------------------------- state -------------------------------- *)
VARIABLES
  appConfig,     \* app.config: process-wide, read at startup
  pc,            \* per request: "idle", "waiting" (blocked in requests.get) or "done"
  kind,          \* per request: the view function serving it
  gj,            \* per request: what request.get_json() gave
  calls,         \* per request: the URLs it has sent a GET to
  up,            \* per request: what requests.get(...) gave
  resp,          \* per request: the response returned
  sent,          \* per request: how many responses were returned
  client,        \* sheets_service.client is set
  worksheet,     \* the worksheet get_sheet_data opens
  sheet_result   \* what the last get_sheet_data call returned

httpVars == <<appConfig, pc, kind, gj, calls, up, resp, sent>>
sheetVars == <<client, worksheet, sheet_result>>
vars == <<appConfig, pc, kind, gj, calls, up, resp, sent, client, worksheet, sheet_result>>

\* f'{node_url}/api/config'
ConfigUrl == <<appConfig.NODE_API_URL, "/api/config">>

\* the state after create_app(): no request in flight, sheets_service not connected
InitApp ==
  /\ appConfig \in {[NODE_API_URL |-> u] : u \in NodeUrls}
  /\ pc = [r \in Requests |-> "idle"]
  /\ kind = [r \in Requests |-> "none"]
  /\ gj = [r \in Requests |-> NoValue]
  /\ calls = [r \in Requests |-> <<>>]
  /\ up = [r \in Requests |-> NoValue]
  /\ resp = [r \in Requests |-> NoValue]
  /\ sent = [r \in Requests |-> 0]
  /\ client = FALSE
  /\ sheet_result = NoValue

Init ==
  /\ InitApp
  /\ worksheet = [title |-> "Hoja1", values |-> Ok(<<>>)]

\* the same, over every worksheet get_sheet_data may be pointed at
SheetInit ==
  /\ InitApp
  /\ worksheet \in Worksheets

(* ------------------------------- actions ------------------------------- *)
\* a GET arrives; the handler runs up to requests.get(...)
GetNodeConfigCall(r) ==
  /\ pc[r] = "idle"
  /\ pc' = [pc EXCEPT ![r] = "waiting"]
  /\ kind' = [kind EXCEPT ![r] = "get_node_config"]
  /\ calls' = [calls EXCEPT ![r] = Append(@, ConfigUrl)]
  /\ UNCHANGED <<appConfig, gj, up, resp, sent, sheetVars>>

\* variant: a failed call is tried again
GetNodeConfigReturn_retry(r) ==
  /\ pc[r] = "waiting"
  /\ kind[r] = "get_node_config"
  /\ \E a \in UpstreamAnswers :
       IF a.kind = "error" /\ Len(calls[r]) < 3
         THEN /\ calls' = [calls EXCEPT ![r] = Append(@, ConfigUrl)]
              /\ UNCHANGED <<up, resp, sent, pc>>
         ELSE /\ up' = [up EXCEPT ![r] = a]
              /\ resp' = [resp EXCEPT ![r] = get_node_config(a)]
              /\ sent' = [sent EXCEPT ![r] = @ + 1]
              /\ pc' = [pc EXCEPT ![r] = "done"]
              /\ UNCHANGED calls
  /\ UNCHANGED <<appConfig, kind, gj, sheetVars>>

\* requests.get(...) returns or raises; the handler returns its response
GetNodeConfigReturn(r) ==
  /\ pc[r] = "waiting"
  /\ kind[r] = "get_node_config"
  /\ \E a \in UpstreamAnswers :
       /\ up' = [up EXCEPT ![r] = a]
       /\ resp' = [resp EXCEPT ![r] = get_node_config(a)]
  /\ sent' = [sent EXCEPT ![r] = @ + 1]
  /\ pc' = [pc EXCEPT ![r] = "done"]
  /\ UNCHANGED <<appConfig, kind, gj, calls, sheetVars>>

\* a POST arrives; the handler runs get_json() and, unless that raised, runs
\* up to requests.get(...)
CombinedProcessCall(r) ==
  /\ pc[r] = "idle"
  /\ kind' = [kind EXCEPT ![r] = "combined_process"]
  /\ \E j \in GetJsonOutcomes :
       /\ gj' = [gj EXCEPT ![r] = j]
       /\ IF IsRaise(j)
            THEN /\ resp' = [resp EXCEPT ![r] = combined_process(j, NoValue)]
                 /\ sent' = [sent EXCEPT ![r] = @ + 1]
                 /\ pc' = [pc EXCEPT ![r] = "done"]
                 /\ UNCHANGED calls
            ELSE /\ calls' = [calls EXCEPT ![r] = Append(@, ConfigUrl)]
                 /\ pc' = [pc EXCEPT ![r] = "waiting"]
                 /\ UNCHANGED <<resp, sent>>
  /\ UNCHANGED <<appConfig, up, sheetVars>>

\* variant: the upstream answer is kept in app.config and served from there
CombinedProcessReturn_cached(r) ==
  /\ pc[r] = "waiting"
  /\ kind[r] = "combined_process"
  /\ \E a \in UpstreamAnswers :
       LET used == IF "cached" \in DOMAIN appConfig THEN appConfig.cached ELSE a
       IN  /\ up' = [up EXCEPT ![r] = a]
           /\ resp' = [resp EXCEPT ![r] = combined_process(gj[r], used)]
           /\ appConfig' = [NODE_API_URL |-> appConfig.NODE_API_URL, cached |-> used]
  /\ sent' = [sent EXCEPT ![r] = @ + 1]
  /\ pc' = [pc EXCEPT ![r] = "done"]
  /\ UNCHANGED <<kind, gj, calls, sheetVars>>

\* requests.get(...) returns or raises; the handler returns its response
CombinedProcessReturn(r) ==
  /\ pc[r] = "waiting"
  /\ kind[r] = "combined_process"
  /\ \E a \in UpstreamAnswers :
       /\ up' = [up EXCEPT ![r] = a]
       /\ resp' = [resp EXCEPT ![r] = combined_process(gj[r], a)]
  /\ sent' = [sent EXCEPT ![r] = @ + 1]
  /\ pc' = [pc EXCEPT ![r] = "done"]
  /\ UNCHANGED <<appConfig, kind, gj, calls, sheetVars>>

\* the response has gone out: everything built for the request is discarded
Discard(r) ==
  /\ pc[r] = "done"
  /\ pc' = [pc EXCEPT ![r] = "idle"]
  /\ kind' = [kind EXCEPT ![r] = "none"]
  /\ gj' = [gj EXCEPT ![r] = NoValue]
  /\ calls' = [calls EXCEPT ![r] = <<>>]
  /\ up' = [up EXCEPT ![r] = NoValue]
  /\ resp' = [resp EXCEPT ![r] = NoValue]
  /\ sent' = [sent EXCEPT ![r] = 0]
  /\ UNCHANGED <<appConfig, sheetVars>>

\* GoogleSheetsService.connect(): sets self.client, or returns False and leaves it
connect ==
  /\ \E authorized \in BOOLEAN : client' = (client \/ authorized)
  /\ UNCHANGED <<httpVars, worksheet, sheet_result>>

\* one call of get_sheet_data
GetSheetData ==
  /\ sheet_result' = get_sheet_data(client, worksheet)
  /\ UNCHANGED <<httpVars, client, worksheet>>

Next ==
  \E r \in Requests :
    \/ GetNodeConfigCall(r)
    \/ GetNodeConfigReturn(r)
    \/ CombinedProcessCall(r)
    \/ CombinedProcessReturn(r)
    \/ Discard(r)

Spec == Init /\ [][Next]_vars

\* requests.get(..., timeout=5) returns or raises: a waiting handler goes on
FairSpec ==
  /\ Spec
  /\ \A r \in Requests : WF_vars(GetNodeConfigReturn(r)) /\ WF_vars(CombinedProcessReturn(r))

SheetNext == connect \/ GetSheetData

SheetSpec == SheetInit /\ [][SheetNext]_vars

(* ------------------------------ properties ----------------------------- *)
Done(r, k) == pc[r] = "done" /\ kind[r] = k
UpstreamOk(r) ==
  up[r] # NoValue /\ up[r].kind = "response" /\ up[r].status_code = 200 /\ ~IsRaise(up[r].json)
EnvelopeFields == {"EsError", "ErrorCode", "Message", "Result"}

\* C1: when the upstream answers 200 with a JSON payload P, get_node_config
\* answers 200 with exactly success = true and node_config = P.
C1_ConfigPassedThrough ==
  \A r \in Requests :
    (Done(r, "get_node_config") /\ UpstreamOk(r)) =>
      resp[r] = [status |-> 200, body |-> [success |-> TRUE, node_config |-> up[r].json.ok]]

C1_Witness ==
  \E r \in Requests :
    /\ Done(r, "get_node_config") /\ UpstreamOk(r)
    /\ up[r].json.ok = JObj([name |-> JStr("node")])
    /\ resp[r].status = 200

\* C2: when the upstream answers another status than 200, or the call fails
\* with a connection error or timeout, get_node_config answers success = false
\* with a status that is not 200: the upstream status, or 503 for the failed call.
C2_FailureSurfaced ==
  \A r \in Requests :
    (Done(r, "get_node_config") /\ (up[r].kind = "error" \/ up[r].status_code # 200)) =>
      /\ resp[r].body.success = FALSE
      /\ "node_config" \notin DOMAIN resp[r].body
      /\ resp[r].status # 200
      /\ resp[r].status = (IF up[r].kind = "error" THEN 503 ELSE up[r].status_code)

C2_Witness ==
  /\ Done("r1", "get_node_config") /\ up["r1"].kind = "error" /\ resp["r1"].status = 503
  /\ Done("r2", "get_node_config") /\ up["r2"].kind = "response" /\ resp["r2"].status = 404

\* the items list a request submitted and the limit its upstream declared
HasItemsList(r) ==
  /\ ~IsRaise(gj[r]) /\ gj[r].ok.t = "obj"
  /\ "items" \in DOMAIN gj[r].ok.o /\ gj[r].ok.o.items.t = "list"
SubmittedLen(r) == Len(gj[r].ok.o.items.l)
DeclaredLimit(r) ==
  IF "max_connections" \in DOMAIN up[r].json.ok.o
    THEN up[r].json.ok.o.max_connections
    ELSE JNum(100)

\* C3: a successful combined_process response for an items list of length L and
\* a declared limit M (100 when the key is absent) reports within_limits = (L <= M),
\* items_processed = L and max_items_allowed = M.
C3_WithinLimitsIffLeq ==
  \A r \in Requests :
    (Done(r, "combined_process") /\ resp[r].status = 200 /\ HasItemsList(r)
       /\ DeclaredLimit(r).t = "num") =>
      /\ resp[r].body.result.within_limits = (SubmittedLen(r) <= DeclaredLimit(r).n)
      /\ resp[r].body.result.items_processed = SubmittedLen(r)
      /\ resp[r].body.result.max_items_allowed = DeclaredLimit(r)

C3_Witness ==
  /\ Done("r1", "combined_process") /\ resp["r1"].status = 200 /\ HasItemsList("r1")
  /\ up["r1"].json.ok = JObj([max_connections |-> JNum(1), name |-> JStr("node")])
  /\ SubmittedLen("r1") = 1 /\ resp["r1"].body.result.within_limits
  /\ Done("r2", "combined_process") /\ resp["r2"].status = 200 /\ HasItemsList("r2")
  /\ up["r2"].json.ok = JObj([name |-> JStr("node")])
  /\ SubmittedLen("r2") = 101 /\ ~resp["r2"].body.result.within_limits
  /\ resp["r2"].body.result.max_items_allowed = JNum(100)

C6_RawConfigAndDataReturned ==
  \A r \in Requests :
    (Done(r, "combined_process") /\ resp[r].status = 200) =>
      /\ UpstreamOk(r)
      /\ resp[r].body.node_config_used = up[r].json.ok
      /\ resp[r].body.result.data = gj[r].ok
      /\ DOMAIN resp[r].body = {"success", "result", "node_config_used"}

C6_Witness ==
  \E r \in Requests :
    /\ Done(r, "combined_process") /\ resp[r].status = 200
    /\ up[r].json.ok = JObj([name |-> JStr("node")])
    /\ gj[r].ok = JObj([items |-> ItemsOfLen(1), user |-> JStr("u")])
    /\ resp[r].body.result.max_items_allowed = JNum(100)

\* C7: a request issues at most one upstream GET and returns exactly one
\* response; an upstream failure is not retried; a handler waiting for the
\* upstream always ends with a response.
C7_SingleCallSingleResponse ==
  /\ [](\A r \in Requests :
          /\ Len(calls[r]) <= 1
          /\ sent[r] <= 1
          /\ (pc[r] = "done" <=> sent[r] = 1)
          /\ (pc[r] = "waiting" => Len(calls[r]) = 1))
  /\ \A r \in Requests : (pc[r] = "waiting") ~> (pc[r] = "done")

C7_Witness ==
  /\ Done("r1", "get_node_config") /\ up["r1"].kind = "error"
  /\ Len(calls["r1"]) = 1 /\ sent["r1"] = 1
  /\ Done("r2", "combined_process") /\ up["r2"] # NoValue /\ up["r2"].kind = "response"
  /\ up["r2"].status_code = 500 /\ Len(calls["r2"]) = 1 /\ sent["r2"] = 1

\* two finished requests of the same handler with the same body and the same
\* upstream answer have the same response
SameInputsSameResponse ==
  \A r1, r2 \in Requests :
    (pc[r1] = "done" /\ pc[r2] = "done" /\ kind[r1] = kind[r2]
       /\ gj[r1] = gj[r2] /\ up[r1] = up[r2]) => resp[r1] = resp[r2]

\* C8: handling is stateless: no step of a handler changes app.config, every
\* upstream call goes to the URL configured at startup, and requests with the
\* same body and the same upstream answer get the same response whatever
\* other requests ran before or meanwhile.
C8_Stateless ==
  [][/\ appConfig' = appConfig
     /\ SameInputsSameResponse'
     /\ \A r \in Requests : \A i \in 1..Len(calls'[r]) : calls'[r][i] = ConfigUrl]_vars

C8_Witness ==
  /\ Done("r1", "combined_process") /\ Done("r2", "combined_process")
  /\ gj["r1"] = gj["r2"] /\ up["r1"] = up["r2"]
  /\ resp["r1"].status = 200
  /\ calls["r1"] = <<ConfigUrl>> /\ calls["r2"] = <<ConfigUrl>>

\* the ways a combined_process request fails
BodyNotObject(r) == ~IsRaise(gj[r]) /\ gj[r].ok.t # "obj"
UpstreamFailed(r) == up[r] # NoValue /\ up[r].kind = "error"
UpstreamNot200(r) == up[r] # NoValue /\ up[r].kind = "response" /\ up[r].status_code # 200
LimitOfType(r, types) ==
  /\ UpstreamOk(r) /\ up[r].json.ok.t = "obj"
  /\ "max_connections" \in DOMAIN up[r].json.ok.o
  /\ up[r].json.ok.o.max_connections.t \in types
CaughtWith(r, text) ==
  resp[r] = [status |-> 500, body |-> [success |-> FALSE, error |-> text]]
CaughtSome(r) ==
  /\ resp[r].status = 500 /\ DOMAIN resp[r].body = {"success", "error"}
  /\ resp[r].body.success = FALSE /\ resp[r].body.error # GenericMessage

\* what C9 says of every kind of failure but the non-numeric limit
C9_Common(r) ==
  /\ (~resp[r].body.success =>
        resp[r].status # 200 /\ DOMAIN resp[r].body = {"success", "error"})
  /\ (UpstreamNot200(r) => resp[r].status = 503 /\ ~resp[r].body.success)
  /\ (UpstreamFailed(r) => CaughtWith(r, up[r].text))
  /\ (IsRaise(gj[r]) => CaughtWith(r, gj[r].raises))
  /\ ((BodyNotObject(r) /\ UpstreamOk(r) /\ up[r].json.ok.t = "obj") =>
        CaughtWith(r, <<"'", PyTypeName(gj[r].ok), "' object has no attribute 'get'">>))
  /\ ((BodyNotObject(r) /\ UpstreamOk(r)) => CaughtSome(r))

\* C9 as stated: every failure of combined_process gives success = false, a
\* status that is not 200 and only an error text: 503 for an upstream status
\* other than 200, 500 with the exception text for a failed upstream call, a
\* missing or non-object body, or a limit that is not a number.
C9_FailuresOfCombinedProcess ==
  \A r \in Requests :
    Done(r, "combined_process") =>
      /\ C9_Common(r)
      /\ (LimitOfType(r, {"null", "bool", "str", "list", "obj"}) => CaughtSome(r))

\* C9 amended: the same, where the limit that gives 500 is null, a string, an
\* array or an object; a boolean limit raises nothing: it is compared as 1 or 0
\* and the request succeeds when the body is an object with a countable items.
C9_FailuresExceptBooleanLimit ==
  \A r \in Requests :
    Done(r, "combined_process") =>
      /\ C9_Common(r)
      /\ (LimitOfType(r, {"null", "str", "list", "obj"}) => CaughtSome(r))
      /\ ((LimitOfType(r, {"bool"}) /\ HasItemsList(r)) =>
            /\ resp[r].status = 200
            /\ resp[r].body.result.within_limits =
                 (SubmittedLen(r) <= (IF DeclaredLimit(r).b THEN 1 ELSE 0)))

C9_Witness ==
  /\ Done("r1", "combined_process") /\ UpstreamFailed("r1") /\ resp["r1"].status = 500
  /\ Done("r2", "combined_process") /\ LimitOfType("r2", {"str"}) /\ HasItemsList("r2")
  /\ resp["r2"].status = 500

(* ---- get_sheet_data ---- *)
SheetRead == sheet_result # NoValue /\ "inventoryList" \in DOMAIN sheet_result
AllValues == worksheet.values.ok
Headers == Head(AllValues)
DataRows == Tail(AllValues)
HeaderSet == {Headers[j] : j \in 1..Len(Headers)}
CellOrEmpty(row, j) == IF j <= Len(row) THEN row[j] ELSE ""
LastIndexOf(h) == CHOOSE j \in 1..Len(Headers) :
                    Headers[j] = h /\ \A k \in (j + 1)..Len(Headers) : Headers[k] # h
RecordShape ==
  /\ Len(sheet_result.inventoryList) = Len(DataRows)
  /\ \A k \in 1..Len(DataRows) : DOMAIN sheet_result.inventoryList[k] = HeaderSet

\* C5 as stated: one record per data row, in order, with exactly the headers
\* as keys, mapping every header H[j] to the row's cell j, or to "" when the
\* row has no cell j.
C5_EveryHeaderToItsCell ==
  SheetRead =>
    /\ RecordShape
    /\ \A k \in 1..Len(DataRows) : \A j \in 1..Len(Headers) :
         sheet_result.inventoryList[k][Headers[j]] = CellOrEmpty(DataRows[k], j)

\* C5 amended: one record per data row, in order, with exactly the headers as
\* keys, mapping every header h to the row's cell at the last position where h
\* occurs in the header row, or to "" when the row has no cell there.
C5_HeaderToLastCell ==
  SheetRead =>
    /\ RecordShape
    /\ \A k \in 1..Len(DataRows) : \A h \in HeaderSet :
         sheet_result.inventoryList[k][h] = CellOrEmpty(DataRows[k], LastIndexOf(h))

C5_Witness ==
  /\ SheetRead
  /\ Headers = <<"a", "a">>
  /\ DataRows = <<(<<"b">>), (<<"a", "b">>)>>
  /\ sheet_result.inventoryList = <<[a |-> ""], [a |-> "b"]>>

\* C10: the result of get_sheet_data agrees with its envelope: a failed read
\* gives only an error text; a sheet without rows gives headers = [], total = 0
\* and the "sin datos" error envelope and no inventoryList; a sheet with a
\* header row gives the success envelope and total = len(inventoryList) = rows - 1.
C10_ResultAgreesWithEnvelope ==
  sheet_result # NoValue =>
    /\ IsRaise(worksheet.values) => "error" \in DOMAIN sheet_result
    /\ "error" \in DOMAIN sheet_result => DOMAIN sheet_result = {"error"}
    /\ ("error" \notin DOMAIN sheet_result /\ AllValues = <<>>) =>
         sheet_result = [headers |-> <<>>, total |-> 0,
                         errorResponse |-> [EsError |-> TRUE, ErrorCode |-> JNum(-1),
                                            Message |-> JStr("sin datos"), Result |-> JNull]]
    /\ ("error" \notin DOMAIN sheet_result /\ AllValues # <<>>) =>
         /\ DOMAIN sheet_result =
              {"sheet_name", "headers", "inventoryList", "errorResponse", "total"}
         /\ sheet_result.errorResponse.EsError = FALSE
         /\ sheet_result.errorResponse.ErrorCode = JStr("0")
         /\ sheet_result.total = Len(sheet_result.inventoryList)
         /\ sheet_result.total = Len(AllValues) - 1

C10_Witness ==
  /\ sheet_result # NoValue /\ "error" \notin DOMAIN sheet_result
  /\ Len(AllValues) = 1
  /\ sheet_result.total = 0 /\ sheet_result.inventoryList = <<>>

====
